---- MODULE Spec2Model ----
(***************************************************************************)
(* Inventory ledger, FIFO stock allocation, invoice sequencer and bill     *)
(* generation of src/App.py (DatabaseHandler and StockManagementApp).      *)
(*                                                                         *)
(* The SQLite database file is shared state.  Each process is one running  *)
(* instance of the application with its own connection; every statement    *)
(* that the code commits on its own is one step.  A messagebox is modal,   *)
(* so a handler that shows one waits there until it is dismissed.          *)
(***************************************************************************)
EXTENDS Integers, Sequences, FiniteSets, TLC

\* ---------------------------------------------------------------- bounds
MaxBatches == 2
MaxQty == 2
MaxCart == 2
MaxDay == 3
MaxInvoice == 3
MaxBills == 1
MaxList == 1
MaxAllocDay == 1
\* The calendar is cut into DaysPerYear days a year; day AprilFirst of a
\* year is April 1, the days before it are January..March.
DaysPerYear == 3
AprilFirst == 1

Procs == {1, 2}
Products == {"Widget", "Gadget"}
Customers == {"", "Asha"}
GstSlabs == {10, 18}
UnitPrices == {100}
CessRates == {0, 2}
QtyInputs == (0 - 1)..MaxQty

NoRow == 0 - 1
NoLock == 0
\* low_stock_threshold INTEGER DEFAULT 5
DefaultThreshold == 5
\* what the admin may enter in the threshold dialog (minvalue = 1)
Thresholds == {1, DefaultThreshold}

\* ------------------------------------------------------------- the clock
\* datetime.now().year
Year(d) == d \div DaysPerYear
\* datetime.now().month == 4 and datetime.now().day == 1
IsAprilFirst(d) == d % DaysPerYear = AprilFirst
\* datetime.now().strftime("%Y-%m-%d"): the text of an ISO date; ORDER BY on
\* that text is the order of the days, so the day number stands for it.
PurchaseDate(d) == d
Years == 0..(MaxDay \div DaysPerYear)

VARIABLES
    today,                \* datetime.now()
    products,             \* table products, row id = position
    billing,              \* table billing (bill_number PRIMARY KEY)
    bill_items,           \* table bill_items in AUTOINCREMENT order
    settings,             \* table settings: year -> last_invoice_number
    low_stock_threshold,  \* table settings: year -> low_stock_threshold
    dbLock,               \* connection holding the database's write lock
    pc,                   \* where each process stands
    temp_products,        \* self.temp_products, the cart
    billing_items_tree,   \* the rows of the billing_items_tree widget
    caller,               \* who called the DatabaseHandler method running
    customer_name,        \* local of generate_bill
    invoice_number,       \* local of generate_bill
    item_idx,             \* position of generate_bill's loop over the cart
    current_year,         \* local of get_invoice_number
    last_invoice_number,  \* local of get_invoice_number
    us_args,              \* arguments of the running update_stock
    batches,              \* local of update_stock: the rows it fetched
    error,                \* exception the last call of a process ended with
    call_pre,             \* history: the tables when the running call began
    us_pre,               \* history: table products when update_stock began
    us_done,              \* history: the update_stock call the last step ended
    granted,              \* history: quantity granted so far, per product
    taken,                \* history: quantity update_stock took, per row
    issued,               \* history: the numbers get_invoice_number returned
    concurrent            \* history: numbers others got while a call ran

dbvars == <<products, billing, bill_items, settings>>
cartvars == <<temp_products, billing_items_tree>>
gbvars == <<customer_name, invoice_number, item_idx>>
ginvars == <<current_year, last_invoice_number>>
usvars == <<us_args, batches>>
vars == <<today, products, billing, bill_items, settings,
          low_stock_threshold, dbLock, pc,
          temp_products, billing_items_tree, caller, customer_name,
          invoice_number, item_idx, current_year, last_invoice_number,
          us_args, batches, error, call_pre, us_pre, us_done, granted, taken,
          issued, concurrent>>

\* ------------------------------------------------------------- helpers
Min(a, b) == IF a <= b THEN a ELSE b

RECURSIVE SumQuantity(_)
\* sum(row['quantity'] for row in rows)
SumQuantity(rows) ==
    IF rows = <<>> THEN 0 ELSE Head(rows).quantity + SumQuantity(Tail(rows))

\* Row ids of the batches of a product: WHERE product_name = ?
IdsOf(prods, name) == {i \in 1..Len(prods) : prods[i].product_name = name}

RECURSIVE SumOver(_, _)
SumOver(prods, ids) ==
    IF ids = {} THEN 0
    ELSE LET i == CHOOSE j \in ids : TRUE
         IN  prods[i].quantity + SumOver(prods, ids \ {i})

\* SELECT SUM(quantity) FROM products WHERE product_name = ?
TotalRemaining(prods, name) == SumOver(prods, IdsOf(prods, name))

NoNumber == 0

\* ---------------------------------------------------------------- Init
\* setup_database creates the tables empty and INSERT OR IGNOREs the
\* settings row of the current year with last_invoice_number 0.
Init ==
    /\ today = 0
    /\ products = <<>>
    /\ billing = {}
    /\ bill_items = <<>>
    /\ settings = [y \in Years |-> IF y = Year(0) THEN 0 ELSE NoRow]
    /\ low_stock_threshold = [y \in Years |-> DefaultThreshold]
    /\ dbLock = NoLock
    /\ pc = [p \in Procs |-> "idle"]
    /\ temp_products = [p \in Procs |-> <<>>]
    /\ billing_items_tree = [p \in Procs |-> <<>>]
    /\ caller = [p \in Procs |-> "none"]
    /\ customer_name = [p \in Procs |-> ""]
    /\ invoice_number = [p \in Procs |-> NoNumber]
    /\ item_idx = [p \in Procs |-> 0]
    /\ current_year = [p \in Procs |-> 0]
    /\ last_invoice_number = [p \in Procs |-> 0]
    /\ us_args = [p \in Procs |-> <<>>]
    /\ batches = [p \in Procs |-> <<>>]
    /\ error = [p \in Procs |-> "none"]
    /\ call_pre = [p \in Procs |-> <<>>]
    /\ us_pre = [p \in Procs |-> <<>>]
    /\ us_done = <<>>
    /\ granted = [n \in Products |-> 0]
    /\ taken = <<>>
    /\ issued = [y \in Years |-> <<>>]
    /\ concurrent = [p \in Procs |-> {}]

\* --------------------------------------------------------------- clock
Tick ==
    /\ today < MaxDay
    /\ today' = today + 1
    /\ us_done' = <<>>
    /\ UNCHANGED low_stock_threshold
    /\ UNCHANGED <<dbvars, dbLock, pc, cartvars, caller, gbvars, ginvars,
                   usvars, error, call_pre, us_pre, granted, taken, issued,
                   concurrent>>

\* ----------------------------------------------------- purchase entry
\* An input of the purchase form is [product_name, quantity, price,
\* gst_slab, cess].  Brand and supplier invoice are stored and never read by the
\* ledger; they are left out.  The company is one of the combobox's.
\* StockManagementApp.add_product_to_list: int(quantity) and float(price)
\* accept any sign; CGST = SGST = slab / 2.
add_product_to_list(product_items, company, in) ==
    IF company = "" \/ in.product_name = ""
    THEN product_items
    ELSE Append(product_items,
                [product_name |-> in.product_name,
                 quantity |-> in.quantity,
                 unit_price |-> in.price,
                 cgst |-> in.gst_slab \div 2,
                 sgst |-> in.gst_slab \div 2,
                 cess |-> in.cess])

\* format_name: every word gets its first letter in upper case and the rest
\* in lower case.  The names of the model are given with their images.
format_name(name) ==
    CASE name \in {"widget", "WIDGET", "Widget"} -> "Widget"
      [] name \in {"gadget", "GADGET", "Gadget"} -> "Gadget"
      [] OTHER -> name

\* A purchase entered as a restock: the newest batch of the product, when
\* there is one, is overwritten with the quantity entered; a batch is
\* inserted only for a product that has none.
restock_product(prods, item, purchase_date) ==
    LET ids == IdsOf(prods, format_name(item.product_name))
    IN  IF ids = {}
        THEN Append(prods,
                    [product_name |-> format_name(item.product_name),
                     original_quantity |-> item.quantity,
                     quantity |-> item.quantity,
                     unit_price |-> item.unit_price,
                     cgst |-> item.cgst,
                     sgst |-> item.sgst,
                     cess |-> item.cess,
                     purchase_date |-> purchase_date])
        ELSE LET i == CHOOSE j \in ids : \A k \in ids : k <= j
             IN  [prods EXCEPT ![i].original_quantity = item.quantity,
                               ![i].quantity = item.quantity,
                               ![i].purchase_date = purchase_date]

\* DatabaseHandler.add_product: product_name = format_name(product_name);
\* original_quantity and quantity both get the quantity entered.
add_product(prods, item, purchase_date) ==
    Append(prods,
           [product_name |-> format_name(item.product_name),
            original_quantity |-> item.quantity,
            quantity |-> item.quantity,
            unit_price |-> item.unit_price,
            cgst |-> item.cgst,
            sgst |-> item.sgst,
            cess |-> item.cess,
            purchase_date |-> purchase_date])

RECURSIVE BuildList(_, _)
\* the list a run of add_product_to_list calls leaves in product_items
BuildList(product_items, inputs) ==
    IF inputs = <<>> THEN product_items
    ELSE BuildList(add_product_to_list(product_items, "Acme", Head(inputs)),
                   Tail(inputs))

RECURSIVE SaveLoop(_, _, _)
\* for product in self.product_items: self.db.add_product(...)
SaveLoop(prods, product_items, purchase_date) ==
    IF product_items = <<>> THEN prods
    ELSE SaveLoop(add_product(prods, Head(product_items), purchase_date),
                  Tail(product_items), purchase_date)

\* The amounts taken so far, with 0 for the rows no call has touched.
TakenSoFar(prods) ==
    [i \in 1..Len(prods) |-> IF i \in DOMAIN taken THEN taken[i] ELSE 0]

\* A statement that writes needs the write lock: it goes ahead when no
\* other connection holds it, and its commit releases it.
CanWrite(p) == dbLock \in {NoLock, p}

\* add_product_to_list (once per line of the form) followed by
\* save_all_products.  product_items is read by nothing else, so the list
\* is built and saved in one step.
save_all_products(p, inputs) ==
    /\ pc[p] = "idle"
    /\ CanWrite(p)
    /\ inputs # <<>>
    /\ Len(products) + Len(inputs) <= MaxBatches
    /\ products' = SaveLoop(products, BuildList(<<>>, inputs),
                            PurchaseDate(today))
    /\ taken' = TakenSoFar(products')
    /\ dbLock' = NoLock
    /\ us_done' = <<>>
    /\ UNCHANGED <<today, low_stock_threshold, billing, bill_items, settings, pc, cartvars,
                   caller, gbvars, ginvars, usvars, error, call_pre, us_pre,
                   granted, issued,
                   concurrent>>

\* ------------------------------------------------------------ settings
\* The statement with the wrong column: UPDATE settings SET
\* last_invoice_number = ? WHERE year = ?
UpdateInvoiceColumn(rows, thresholds, year, threshold) ==
    IF rows[year] = NoRow THEN <<rows, thresholds>>
    ELSE <<[rows EXCEPT ![year] = threshold], thresholds>>

\* UPDATE settings SET low_stock_threshold = ? WHERE year = ?: the column
\* of the rows of that year, last_invoice_number left as it is.  A year
\* without a row has no row to update.
UpdateThreshold(rows, thresholds, year, threshold) ==
    IF rows[year] = NoRow THEN <<rows, thresholds>>
    ELSE <<rows, [thresholds EXCEPT ![year] = threshold]>>

\* StockManagementApp.set_low_stock_threshold, with what the dialog returns
set_low_stock_threshold(p, threshold) ==
    /\ pc[p] = "idle"
    /\ CanWrite(p)
    /\ LET written == UpdateThreshold(settings, low_stock_threshold,
                                      Year(today), threshold)
       IN  /\ settings' = written[1]
           /\ low_stock_threshold' = written[2]
    /\ dbLock' = NoLock
    /\ us_done' = <<>>
    /\ UNCHANGED <<today, products, billing, bill_items, pc, cartvars,
                   caller, gbvars, ginvars, usvars, error, call_pre, us_pre,
                   granted, taken, issued, concurrent>>

\* ---------------------------------------------------------------- cart
\* The rows of GROUP BY p.product_name, p.cgst, p.sgst for one product.
Groups(prods, name) ==
    {<<prods[i].cgst, prods[i].sgst>> : i \in IdsOf(prods, name)}

\* SUM(p.quantity) of one of those rows
GroupTotal(prods, name, g) ==
    SumOver(prods, {i \in IdsOf(prods, name) :
                        <<prods[i].cgst, prods[i].sgst>> = g})

\* cgst_amount = (price * quantity) * (cgst / 100), in hundredths of the
\* currency unit
TaxAmount(price, quantity, rate) == price * quantity * rate

\* item_total = (price * quantity) + cgst_amount + sgst_amount, in hundredths
ItemTotal(price, quantity, cgst, sgst) ==
    price * quantity * 100 + TaxAmount(price, quantity, cgst)
                           + TaxAmount(price, quantity, sgst)

\* the values of a row of billing_items_tree
TreeRow(product_name, quantity, price, cgst, sgst) ==
    [product_name |-> product_name,
     quantity |-> quantity,
     unit_price |-> price,
     cgst_amount |-> TaxAmount(price, quantity, cgst),
     sgst_amount |-> TaxAmount(price, quantity, sgst),
     item_total |-> ItemTotal(price, quantity, cgst, sgst)]

\* StockManagementApp.add_billing_item.  fetchone() takes the first group;
\* SQL leaves the order of the groups open.  A rejected entry (product not
\* found, not enough stock) shows an error and changes nothing.
add_billing_item(p, product_name, quantity, price) ==
    /\ pc[p] = "idle"
    /\ Len(temp_products[p]) < MaxCart
    /\ Len(billing_items_tree[p]) < MaxCart
    /\ \E g \in Groups(products, product_name) :
         /\ ~(quantity > GroupTotal(products, product_name, g))
         /\ billing_items_tree' =
              [billing_items_tree EXCEPT ![p] =
                 Append(@, TreeRow(product_name, quantity, price,
                                   g[1], g[2]))]
         /\ temp_products' =
              [temp_products EXCEPT ![p] =
                 Append(@, [product_name |-> product_name,
                            quantity |-> quantity,
                            unit_price |-> price,
                            cgst |-> g[1],
                            sgst |-> g[2]])]
    /\ us_done' = <<>>
    /\ UNCHANGED <<today, low_stock_threshold, dbvars, dbLock, pc, caller, gbvars, ginvars,
                   usvars, error, call_pre, us_pre, granted, taken, issued,
                   concurrent>>

RECURSIVE UpdateFirst(_, _, _, _)
\* for product in self.temp_products: if product['product_name'] ==
\* product_name: set quantity and unit_price; break
UpdateFirst(cart, product_name, quantity, price) ==
    IF cart = <<>> THEN <<>>
    ELSE IF Head(cart).product_name = product_name
         THEN <<[Head(cart) EXCEPT !.quantity = quantity,
                                   !.unit_price = price]>> \o Tail(cart)
         ELSE <<Head(cart)>>
                \o UpdateFirst(Tail(cart), product_name, quantity, price)

\* StockManagementApp.update_billing_item on the row editing_item that a
\* double click has chosen, with what the entry fields hold.  A rejected
\* entry shows an error and changes nothing.
update_billing_item(p, editing_item, product_name, quantity, price) ==
    /\ pc[p] = "idle"
    /\ editing_item \in 1..Len(billing_items_tree[p])
    /\ \E g \in Groups(products, product_name) :
         /\ ~(quantity > GroupTotal(products, product_name, g))
         /\ billing_items_tree' =
              [billing_items_tree EXCEPT ![p][editing_item] =
                 TreeRow(product_name, quantity, price, g[1], g[2])]
         /\ temp_products' =
              [temp_products EXCEPT ![p] =
                 UpdateFirst(@, product_name, quantity, price)]
    /\ us_done' = <<>>
    /\ UNCHANGED <<today, low_stock_threshold, dbvars, dbLock, pc, caller,
                   gbvars, ginvars, usvars, error, call_pre, us_pre, granted, taken,
                   issued, concurrent>>

RECURSIVE DropRows(_, _, _)
\* billing_items_tree.delete(item) for every selected item
DropRows(rows, selected, i) ==
    IF rows = <<>> THEN <<>>
    ELSE IF i \in selected THEN DropRows(Tail(rows), selected, i + 1)
         ELSE <<Head(rows)>> \o DropRows(Tail(rows), selected, i + 1)

\* [p for p in self.temp_products if p['product_name'] != product_name],
\* for the product of every selected row
DropProducts(cart, names) ==
    SelectSeq(cart, LAMBDA line : line.product_name \notin names)

\* StockManagementApp.remove_billing_items, as a function of the selection
CartAfterRemove(cart, tree, selected) ==
    IF selected # {}
    THEN DropProducts(cart, {tree[i].product_name : i \in selected})
    ELSE <<>>

TreeAfterRemove(tree, selected) ==
    IF selected # {} THEN DropRows(tree, selected, 1) ELSE <<>>

remove_billing_items(p, selected) ==
    /\ pc[p] = "idle"
    /\ billing_items_tree[p] # <<>>
    /\ selected \subseteq 1..Len(billing_items_tree[p])
    /\ temp_products' =
         [temp_products EXCEPT ![p] =
            CartAfterRemove(@, billing_items_tree[p], selected)]
    /\ billing_items_tree' =
         [billing_items_tree EXCEPT ![p] = TreeAfterRemove(@, selected)]
    /\ us_done' = <<>>
    /\ UNCHANGED <<today, low_stock_threshold, dbvars, dbLock, pc, caller, gbvars, ginvars,
                   usvars, error, call_pre, us_pre, granted, taken, issued,
                   concurrent>>

\* ------------------------------------------------- how a call ends
\* The locals of get_invoice_number and update_stock go out of scope.
DropLocals(p) ==
    /\ current_year' = [current_year EXCEPT ![p] = 0]
    /\ last_invoice_number' = [last_invoice_number EXCEPT ![p] = 0]
    /\ us_args' = [us_args EXCEPT ![p] = <<>>]
    /\ batches' = [batches EXCEPT ![p] = <<>>]
    /\ us_pre' = [us_pre EXCEPT ![p] = <<>>]

\* An exception leaves generate_bill through its except clauses, which show
\* an error box; a direct call of a DatabaseHandler method hands it to the
\* caller.
Raise(p, kind) ==
    /\ error' = [error EXCEPT ![p] = kind]
    /\ pc' = [pc EXCEPT ![p] =
                IF caller[p] = "generate_bill" THEN "msg_error" ELSE "idle"]
    /\ caller' = [caller EXCEPT ![p] =
                    IF caller[p] = "generate_bill" THEN @ ELSE "none"]
    /\ DropLocals(p)

\* ------------------------------------------------------- update_stock
\* SELECT id, quantity ... WHERE product_name = ? AND quantity > 0
\* ORDER BY purchase_date ASC: every order of the rows that is ascending in
\* purchase_date (rows of one date come in an order SQL leaves open).
StockOrders(prods, name) ==
    LET ids == {i \in IdsOf(prods, name) : prods[i].quantity > 0}
        n == Cardinality(ids)
    IN  {f \in [1..n -> ids] :
            \A i, j \in 1..n :
                i < j => /\ f[i] # f[j]
                         /\ prods[f[i]].purchase_date <= prods[f[j]].purchase_date}

\* cursor.fetchall() of that query
FetchBatches(prods, ord) ==
    [i \in 1..Len(ord) |-> [id |-> ord[i], quantity |-> prods[ord[i]].quantity]]

\* A sign slip in the deduction: the difference taken for the minimum.
DeductDifference(remaining, batch_quantity) == remaining - batch_quantity

\* deduct = min(remaining, batch['quantity'])
Deduct(remaining, batch_quantity) == Min(remaining, batch_quantity)

RECURSIVE AssignLoop(_, _, _)
\* The UPDATE with the subtraction left out: SET quantity = ? WHERE id = ?
AssignLoop(prods, rows, remaining) ==
    IF rows = <<>> \/ remaining <= 0 THEN prods
    ELSE LET batch == Head(rows)
             deduct == Deduct(remaining, batch.quantity)
         IN  AssignLoop([prods EXCEPT ![batch.id].quantity = deduct],
                        Tail(rows), remaining - deduct)

RECURSIVE DeductLoop(_, _, _)
\* for batch in batches: if remaining <= 0: break; UPDATE products SET
\* quantity = quantity - deduct WHERE id = batch['id']; remaining -= deduct
DeductLoop(prods, rows, remaining) ==
    IF rows = <<>> \/ remaining <= 0 THEN prods
    ELSE LET batch == Head(rows)
             deduct == Deduct(remaining, batch.quantity)
         IN  DeductLoop([prods EXCEPT ![batch.id].quantity = @ - deduct],
                        Tail(rows), remaining - deduct)

RECURSIVE TakeLoop(_, _, _)
\* the values of deduct that the loop passes to its UPDATE statements,
\* added per batch id to the amounts earlier calls passed
TakeLoop(amounts, rows, remaining) ==
    IF rows = <<>> \/ remaining <= 0 THEN amounts
    ELSE LET batch == Head(rows)
             deduct == Deduct(remaining, batch.quantity)
         IN  TakeLoop([amounts EXCEPT ![batch.id] = @ + deduct],
                      Tail(rows), remaining - deduct)

\* A plain BEGIN is deferred: it takes no lock and is never refused.
CanBeginDeferred(p) == TRUE

\* BEGIN IMMEDIATE takes the write lock at once and is refused while any
\* connection holds it.
CanBeginImmediate(p) == dbLock = NoLock

\* The comparison off by one: a request for all that is left is refused.
InsufficientOrEqual(total_available, quantity) == total_available <= quantity

\* A request that is not positive refused with the insufficient ones.
InsufficientOrNotPositive(total_available, quantity) ==
    total_available < quantity \/ quantity <= 0

\* total_available < quantity
Insufficient(total_available, quantity) == total_available < quantity

\* history: what an update_stock call was asked and what it found and left
UpdateStockRecord(p, pre, post, ok) ==
    [by |-> p,
     product_name |-> us_args[p].product_name,
     quantity |-> us_args[p].quantity,
     pre |-> pre, post |-> post, ok |-> ok]

\* cursor.execute("BEGIN IMMEDIATE TRANSACTION")
update_stock_begin(p) ==
    /\ pc[p] = "us_begin"
    /\ CanBeginImmediate(p)
    /\ dbLock' = p
    /\ pc' = [pc EXCEPT ![p] = "us_select"]
    /\ us_pre' = [us_pre EXCEPT ![p] = products]
    /\ us_done' = <<>>
    /\ UNCHANGED <<today, low_stock_threshold, dbvars, cartvars, caller, gbvars, ginvars, usvars,
                   error, call_pre, granted, taken, issued, concurrent>>

\* the SELECT and the availability check; on failure rollback and raise
update_stock_select(p) ==
    /\ pc[p] = "us_select"
    /\ \E ord \in StockOrders(products, us_args[p].product_name) :
         LET rows == FetchBatches(products, ord)
             total_available == SumQuantity(rows)
         IN  IF Insufficient(total_available, us_args[p].quantity)
             THEN /\ dbLock' = NoLock
                  /\ Raise(p, "ValueError")
                  /\ us_done' =
                       UpdateStockRecord(p, us_pre[p], products, FALSE)
             ELSE /\ batches' = [batches EXCEPT ![p] = rows]
                  /\ pc' = [pc EXCEPT ![p] = "us_update"]
                  /\ us_done' = <<>>
                  /\ UNCHANGED <<dbLock, caller, error, ginvars, us_args,
                                 us_pre>>
    /\ UNCHANGED <<today, low_stock_threshold, dbvars, cartvars, gbvars, call_pre, granted, taken,
                   issued, concurrent>>

\* the UPDATEs and self.connection.commit(): the writes of a transaction
\* show to other connections at its commit, all at once.  On return
\* generate_bill goes on with the next cart line or shows the success box.
update_stock_commit(p) ==
    /\ pc[p] = "us_update"
    /\ products' = DeductLoop(products, batches[p], us_args[p].quantity)
    /\ dbLock' = NoLock
    /\ IF caller[p] = "generate_bill"
       THEN /\ caller' = caller
            /\ IF item_idx[p] < Len(temp_products[p])
               THEN /\ item_idx' = [item_idx EXCEPT ![p] = @ + 1]
                    /\ pc' = [pc EXCEPT ![p] = "gb_check"]
               ELSE /\ item_idx' = item_idx
                    /\ pc' = [pc EXCEPT ![p] = "msg_success"]
       ELSE /\ caller' = [caller EXCEPT ![p] = "none"]
            /\ item_idx' = item_idx
            /\ pc' = [pc EXCEPT ![p] = "idle"]
    /\ DropLocals(p)
    /\ us_done' = UpdateStockRecord(p, us_pre[p], products', TRUE)
    /\ taken' = TakeLoop(TakenSoFar(products), batches[p],
                       us_args[p].quantity)
    /\ granted' = [granted EXCEPT ![us_args[p].product_name] =
                     @ + (IF us_args[p].quantity > 0
                          THEN us_args[p].quantity ELSE 0)]
    /\ UNCHANGED <<today, low_stock_threshold, billing, bill_items, settings, cartvars,
                   customer_name, invoice_number, error, call_pre, issued,
                   concurrent>>

\* DatabaseHandler.update_stock called on its own
update_stock(p, product_name, quantity) ==
    /\ pc[p] = "idle"
    /\ us_args' = [us_args EXCEPT ![p] =
                     [product_name |-> product_name, quantity |-> quantity]]
    /\ pc' = [pc EXCEPT ![p] = "us_begin"]
    /\ caller' = [caller EXCEPT ![p] = "api"]
    /\ error' = [error EXCEPT ![p] = "none"]
    /\ us_done' = <<>>
    /\ UNCHANGED <<today, low_stock_threshold, dbvars, dbLock, cartvars, gbvars, ginvars, batches,
                   call_pre, us_pre, granted, taken, issued, concurrent>>

\* -------------------------------------------------- get_invoice_number
\* The increment left out: the number last issued is issued again.
NewInvoiceNumberSame(last, d) == IF IsAprilFirst(d) THEN 1 ELSE last

\* The reset made on the first day of the calendar year instead.
NewInvoiceNumberNewYear(last, d) ==
    IF d % DaysPerYear = 0 /\ last > 0 THEN 1 ELSE last + 1

\* The test of the date left out: every call adds one.
NewInvoiceNumberNoReset(last, d) == last + 1

\* new_invoice_number = last_invoice_number + 1, reset to 1 on April 1st
NewInvoiceNumber(last, d) == IF IsAprilFirst(d) THEN 1 ELSE last + 1

\* The processes that have read last_invoice_number and not yet written.
MidCall(p) == {q \in Procs \ {p} : pc[q] \in {"gin_insert", "gin_update"}}

\* current_year = datetime.now().year; SELECT last_invoice_number FROM
\* settings WHERE year = ?
get_invoice_number_select(p) ==
    /\ pc[p] = "gin_select"
    /\ settings[Year(today)] < MaxInvoice
    /\ Len(issued[Year(today)]) < MaxInvoice
    /\ current_year' = [current_year EXCEPT ![p] = Year(today)]
    /\ IF settings[Year(today)] = NoRow
       THEN /\ pc' = [pc EXCEPT ![p] = "gin_insert"]
            /\ UNCHANGED last_invoice_number
       ELSE /\ pc' = [pc EXCEPT ![p] = "gin_update"]
            /\ last_invoice_number' =
                 [last_invoice_number EXCEPT ![p] = settings[Year(today)]]
    /\ concurrent' = [concurrent EXCEPT ![p] = {}]
    /\ us_done' = <<>>
    /\ UNCHANGED <<today, low_stock_threshold, dbvars, dbLock, cartvars, caller, gbvars, usvars,
                   error, call_pre, us_pre, granted, taken, issued>>

\* INSERT INTO settings (year, last_invoice_number) VALUES (?, 0); commit.
\* year is the PRIMARY KEY: a row another connection has inserted since
\* the SELECT makes the INSERT fail, and the failed statement's transaction
\* stays open on this connection, holding the write lock.
get_invoice_number_insert(p) ==
    /\ pc[p] = "gin_insert"
    /\ CanWrite(p)
    /\ IF settings[current_year[p]] # NoRow
       THEN /\ dbLock' = p
            /\ Raise(p, "IntegrityError")
            /\ UNCHANGED settings
       ELSE /\ settings' = [settings EXCEPT ![current_year[p]] = 0]
            /\ dbLock' = NoLock
            /\ last_invoice_number' = [last_invoice_number EXCEPT ![p] = 0]
            /\ pc' = [pc EXCEPT ![p] = "gin_update"]
            /\ UNCHANGED <<caller, error, current_year, usvars, us_pre>>
    /\ us_done' = <<>>
    /\ UNCHANGED <<today, low_stock_threshold, products, billing, bill_items, cartvars, gbvars,
                   call_pre, granted, taken, issued, concurrent>>

\* UPDATE settings SET last_invoice_number = ? WHERE year = ?; commit;
\* return new_invoice_number
get_invoice_number_update(p) ==
    /\ pc[p] = "gin_update"
    /\ CanWrite(p)
    /\ LET new_invoice_number ==
               NewInvoiceNumber(last_invoice_number[p], today)
       IN  /\ settings' = [settings EXCEPT ![current_year[p]] =
                             new_invoice_number]
           /\ invoice_number' = [invoice_number EXCEPT ![p] =
                                   new_invoice_number]
           /\ issued' = [issued EXCEPT ![current_year[p]] =
                           Append(@, [number |-> new_invoice_number,
                                      april |-> IsAprilFirst(today)])]
           /\ concurrent' = [q \in Procs |->
                               IF q \in MidCall(p)
                               THEN concurrent[q] \cup {new_invoice_number}
                               ELSE concurrent[q]]
    /\ dbLock' = NoLock
    /\ IF caller[p] = "generate_bill"
       THEN /\ pc' = [pc EXCEPT ![p] = "gb_create_bill"]
            /\ UNCHANGED caller
       ELSE /\ pc' = [pc EXCEPT ![p] = "idle"]
            /\ caller' = [caller EXCEPT ![p] = "none"]
    /\ DropLocals(p)
    /\ us_done' = <<>>
    /\ UNCHANGED <<today, low_stock_threshold, products, billing, bill_items, cartvars,
                   customer_name, item_idx, error, call_pre, granted, taken>>

\* DatabaseHandler.get_invoice_number called on its own
get_invoice_number(p) ==
    /\ pc[p] = "idle"
    /\ pc' = [pc EXCEPT ![p] = "gin_select"]
    /\ caller' = [caller EXCEPT ![p] = "api"]
    /\ error' = [error EXCEPT ![p] = "none"]
    /\ invoice_number' = [invoice_number EXCEPT ![p] = NoNumber]
    /\ us_done' = <<>>
    /\ UNCHANGED <<today, low_stock_threshold, dbvars, dbLock, cartvars, customer_name, item_idx,
                   ginvars, usvars, call_pre, us_pre, granted, taken, issued,
                   concurrent>>

\* -------------------------------------------------------- generate_bill
RECURSIVE TotalAmount(_)
\* total_amount += quantity * unit_price * (1 + (cgst + sgst) / 100), kept
\* here in hundredths of the currency unit
TotalAmount(cart) ==
    IF cart = <<>> THEN 0
    ELSE LET item == Head(cart)
         IN  item.quantity * item.unit_price * (100 + item.cgst + item.sgst)
             + TotalAmount(Tail(cart))

\* total_stock of generate_bill's own query: SELECT ... WHERE product_name
\* = ? AND quantity > 0
TotalStock(prods, name) ==
    SumOver(prods, {i \in IdsOf(prods, name) : prods[i].quantity > 0})

BillNumbers(bills) == {b.bill_number : b \in bills}

\* The customer left unchecked: only an empty cart is refused.
NothingInCart(cart, c) == cart = <<>>

\* if not self.temp_products: ...; if not customer_name: ...
NothingToBill(cart, c) == cart = <<>> \/ c = ""

\* The "Generate Bill" button.  The customer is what the combobox holds.
\* An empty cart or no customer shows an error and returns; otherwise the
\* handler goes on to self.db.get_invoice_number().
generate_bill(p, c) ==
    /\ pc[p] = "idle"
    /\ settings[Year(today)] < MaxBills
    /\ IF NothingToBill(temp_products[p], c)
       THEN /\ pc' = [pc EXCEPT ![p] = "msg_error"]
            /\ error' = [error EXCEPT ![p] = "validation"]
            /\ UNCHANGED <<customer_name, call_pre>>
       ELSE /\ pc' = [pc EXCEPT ![p] = "gin_select"]
            /\ error' = [error EXCEPT ![p] = "none"]
            /\ customer_name' = [customer_name EXCEPT ![p] = c]
            /\ call_pre' = [call_pre EXCEPT ![p] = products]
    /\ caller' = [caller EXCEPT ![p] = "generate_bill"]
    /\ invoice_number' = [invoice_number EXCEPT ![p] = NoNumber]
    /\ us_done' = <<>>
    /\ UNCHANGED <<today, low_stock_threshold, dbvars, dbLock, cartvars, item_idx, ginvars,
                   usvars, us_pre, granted, taken, issued, concurrent>>

\* The table without its key: no INSERT into billing is refused.
NoDuplicateKey(bills, bill_number) == FALSE

\* bill_number INTEGER PRIMARY KEY: an INSERT of a number that a row of
\* billing carries fails
DuplicateKey(bills, bill_number) == bill_number \in BillNumbers(bills)

\* self.db.create_bill(invoice_number, customer_name, total_amount,
\* bill_date): INSERT INTO billing; commit.  bill_number is the PRIMARY KEY.
generate_bill_create_bill(p) ==
    /\ pc[p] = "gb_create_bill"
    /\ CanWrite(p)
    /\ IF DuplicateKey(billing, invoice_number[p])
       THEN /\ dbLock' = p
            /\ Raise(p, "IntegrityError")
            /\ UNCHANGED <<billing, item_idx>>
       ELSE /\ billing' = billing \cup
                 {[bill_number |-> invoice_number[p],
                   customer_name |-> customer_name[p],
                   total_amount |-> TotalAmount(temp_products[p])]}
            /\ dbLock' = NoLock
            /\ item_idx' = [item_idx EXCEPT ![p] = 1]
            /\ pc' = [pc EXCEPT ![p] = "gb_check"]
            /\ UNCHANGED <<caller, error, ginvars, usvars, us_pre>>
    /\ us_done' = <<>>
    /\ UNCHANGED <<today, low_stock_threshold, products, bill_items, settings, cartvars,
                   customer_name, invoice_number, call_pre, granted, taken,
                   issued, concurrent>>

\* for item in self.temp_products: the stock check of the loop body
generate_bill_check_stock(p) ==
    /\ pc[p] = "gb_check"
    /\ LET item == temp_products[p][item_idx[p]]
           total_stock == TotalStock(products, item.product_name)
       IN  IF total_stock < item.quantity
           THEN Raise(p, "ValueError")
           ELSE /\ pc' = [pc EXCEPT ![p] = "gb_add_item"]
                /\ UNCHANGED <<caller, error, ginvars, usvars, us_pre>>
    /\ us_done' = <<>>
    /\ UNCHANGED <<today, low_stock_threshold, dbvars, dbLock, cartvars, gbvars, call_pre,
                   granted, taken, issued, concurrent>>

\* self.db.add_bill_item(invoice_number, product_name, quantity,
\* item['unit_price']): INSERT INTO bill_items; commit.  Then the call of
\* self.db.update_stock(product_name, quantity).
generate_bill_add_bill_item(p) ==
    /\ pc[p] = "gb_add_item"
    /\ CanWrite(p)
    /\ LET item == temp_products[p][item_idx[p]]
       IN  /\ bill_items' = Append(bill_items,
                                   [bill_number |-> invoice_number[p],
                                    product_name |-> item.product_name,
                                    quantity |-> item.quantity,
                                    unit_price |-> item.unit_price])
           /\ us_args' = [us_args EXCEPT ![p] =
                            [product_name |-> item.product_name,
                             quantity |-> item.quantity]]
    /\ dbLock' = NoLock
    /\ pc' = [pc EXCEPT ![p] = "us_begin"]
    /\ us_done' = <<>>
    /\ UNCHANGED <<today, low_stock_threshold, products, billing, settings, cartvars, caller,
                   gbvars, ginvars, batches, error, call_pre, us_pre,
                   granted, taken, issued, concurrent>>

\* The statements that need the write lock.
WriteSteps == {"gin_insert", "gin_update", "gb_create_bill", "gb_add_item",
               "us_begin"}

\* sqlite3.OperationalError: the write lock stayed with another connection
\* for the whole busy timeout ("database is locked"), or BEGIN IMMEDIATE
\* was run inside this connection's own open transaction.  update_stock's
\* except clause rolls back before it re-raises.
Busy(p) ==
    /\ pc[p] \in WriteSteps
    /\ IF pc[p] = "us_begin" THEN ~CanBeginImmediate(p) ELSE ~CanWrite(p)
    /\ Raise(p, "OperationalError")
    /\ dbLock' = IF dbLock = p THEN NoLock ELSE dbLock
    /\ us_done' = IF pc[p] = "us_begin"
                  THEN UpdateStockRecord(p, products, products, FALSE)
                  ELSE <<>>
    /\ UNCHANGED <<today, low_stock_threshold, dbvars, cartvars, gbvars, call_pre, granted, taken,
                   issued, concurrent>>

\* The message box is closed.  After the success box generate_bill calls
\* self.remove_billing_items(), which removes what is selected in the tree,
\* or everything when nothing is selected.
Dismiss(p, selected) ==
    /\ pc[p] \in {"msg_error", "msg_success"}
    /\ selected \subseteq 1..Len(billing_items_tree[p])
    /\ IF pc[p] = "msg_success"
       THEN /\ temp_products' =
                 [temp_products EXCEPT ![p] =
                    CartAfterRemove(@, billing_items_tree[p], selected)]
            /\ billing_items_tree' =
                 [billing_items_tree EXCEPT ![p] =
                    TreeAfterRemove(@, selected)]
       ELSE /\ selected = {}
            /\ UNCHANGED cartvars
    /\ pc' = [pc EXCEPT ![p] = "idle"]
    /\ caller' = [caller EXCEPT ![p] = "none"]
    /\ error' = [error EXCEPT ![p] = "none"]
    /\ customer_name' = [customer_name EXCEPT ![p] = ""]
    /\ invoice_number' = [invoice_number EXCEPT ![p] = NoNumber]
    /\ item_idx' = [item_idx EXCEPT ![p] = 0]
    /\ call_pre' = [call_pre EXCEPT ![p] = <<>>]
    /\ us_done' = <<>>
    /\ UNCHANGED <<today, low_stock_threshold, dbvars, dbLock, ginvars, usvars, us_pre, granted, taken,
                   issued, concurrent>>

\* Where generate_bill stands between two of its statements after the
\* validation.
InGenerateBill == {"gin_select", "gin_insert", "gin_update",
                   "gb_create_bill", "gb_check", "gb_add_item",
                   "us_begin", "us_select", "us_update"}

\* The instance stops while generate_bill runs (the process is ended).  Its
\* connection closes: a transaction it had open is rolled back and its
\* lock is released; what it had committed stays in the database file.
Abandon(p) ==
    /\ pc[p] \in InGenerateBill
    /\ caller[p] = "generate_bill"
    /\ pc' = [pc EXCEPT ![p] = "abandoned"]
    /\ dbLock' = IF dbLock = p THEN NoLock ELSE dbLock
    /\ DropLocals(p)
    /\ us_done' = <<>>
    /\ UNCHANGED <<today, low_stock_threshold, dbvars, cartvars, caller,
                   gbvars, error, call_pre, granted, taken, issued, concurrent>>

\* The application is started again: StockManagementApp.__init__ with an
\* empty cart.
Restart(p) ==
    /\ pc[p] = "abandoned"
    /\ pc' = [pc EXCEPT ![p] = "idle"]
    /\ temp_products' = [temp_products EXCEPT ![p] = <<>>]
    /\ billing_items_tree' = [billing_items_tree EXCEPT ![p] = <<>>]
    /\ caller' = [caller EXCEPT ![p] = "none"]
    /\ error' = [error EXCEPT ![p] = "none"]
    /\ customer_name' = [customer_name EXCEPT ![p] = ""]
    /\ invoice_number' = [invoice_number EXCEPT ![p] = NoNumber]
    /\ item_idx' = [item_idx EXCEPT ![p] = 0]
    /\ call_pre' = [call_pre EXCEPT ![p] = <<>>]
    /\ us_done' = <<>>
    /\ UNCHANGED <<today, low_stock_threshold, dbvars, dbLock, ginvars,
                   usvars, us_pre, granted, taken, issued, concurrent>>

\* ------------------------------------------------------ specifications
\* What the forms hold when a button is pressed.
PurchaseForms(names, quantities, prices, slabs, cesses) ==
    UNION {[1..n -> [product_name : names, quantity : quantities,
                     price : prices, gst_slab : slabs, cess : cesses]] :
           n \in 1..MaxList}

\* The forms with one price, the 18 % slab and no CESS.
PurchaseLists(names, quantities) ==
    PurchaseForms(names, quantities, UnitPrices, {18}, {0})

Selections(p) == SUBSET (1..Len(billing_items_tree[p]))

\* Two instances of the application on one database file, used on one day:
\* purchase entry, cart editing and bill generation in any interleaving.
Next ==
    \E p \in Procs :
        \/ \E inputs \in PurchaseLists({"Widget"}, 1..MaxQty) :
              save_all_products(p, inputs)
        \/ \E quantity \in 1..MaxQty :
              add_billing_item(p, "Widget", quantity, 100)
        \/ \E c \in Customers : generate_bill(p, c)
        \/ get_invoice_number_select(p)
        \/ get_invoice_number_update(p)
        \/ generate_bill_create_bill(p)
        \/ generate_bill_check_stock(p)
        \/ generate_bill_add_bill_item(p)
        \/ update_stock_begin(p)
        \/ update_stock_select(p)
        \/ update_stock_commit(p)
        \/ Busy(p)
        \/ \E selected \in Selections(p) : Dismiss(p, selected)

Spec == Init /\ [][Next]_vars

\* One instance of the application alone on the database.
NextSerial ==
    \/ \E inputs \in PurchaseLists(Products, QtyInputs) :
          save_all_products(1, inputs)
    \/ \E product_name \in Products, quantity \in QtyInputs :
          add_billing_item(1, product_name, quantity, 100)
    \/ \E selected \in Selections(1) : remove_billing_items(1, selected)
    \/ \E c \in Customers : generate_bill(1, c)
    \/ get_invoice_number_select(1)
    \/ get_invoice_number_update(1)
    \/ generate_bill_create_bill(1)
    \/ generate_bill_check_stock(1)
    \/ generate_bill_add_bill_item(1)
    \/ update_stock_begin(1)
    \/ update_stock_select(1)
    \/ update_stock_commit(1)
    \/ \E selected \in Selections(1) : Dismiss(1, selected)

SpecSerial == Init /\ [][NextSerial]_vars

\* The allocator alone: purchase entries over several days and direct calls
\* of DatabaseHandler.update_stock by one caller.
NextAlloc ==
    \/ today < MaxAllocDay /\ Tick
    \/ \E inputs \in PurchaseLists({"Widget"}, QtyInputs) \cup
                      PurchaseLists({"Gadget"}, {1}) :
          save_all_products(1, inputs)
    \/ \E product_name \in Products, quantity \in QtyInputs :
          update_stock(1, product_name, quantity)
    \/ update_stock_begin(1)
    \/ update_stock_select(1)
    \/ update_stock_commit(1)

SpecAlloc == Init /\ [][NextAlloc]_vars

\* Two callers of DatabaseHandler.update_stock on separate connections.
NextAllocRace ==
    \E p \in Procs :
        \/ \E inputs \in PurchaseLists({"Widget"}, 1..MaxQty) :
              save_all_products(p, inputs)
        \/ \E quantity \in 1..MaxQty : update_stock(p, "Widget", quantity)
        \/ update_stock_begin(p)
        \/ update_stock_select(p)
        \/ update_stock_commit(p)
        \/ Busy(p)

SpecAllocRace == Init /\ [][NextAllocRace]_vars

\* The sequencer alone: direct calls of DatabaseHandler.get_invoice_number
\* by one caller over several days.
NextSeq ==
    \/ Tick
    \/ get_invoice_number(1)
    \/ get_invoice_number_select(1)
    \/ get_invoice_number_insert(1)
    \/ get_invoice_number_update(1)

SpecSeq == Init /\ [][NextSeq]_vars

\* Two callers of DatabaseHandler.get_invoice_number in separate processes.
NextSeqRace ==
    \/ Tick
    \/ \E p \in Procs :
          \/ get_invoice_number(p)
          \/ get_invoice_number_select(p)
          \/ get_invoice_number_insert(p)
          \/ get_invoice_number_update(p)
          \/ Busy(p)

SpecSeqRace == Init /\ [][NextSeqRace]_vars

\* One instance at the counter on one day: purchases of one product,
\* a cart of one line that is added, edited or removed, the threshold
\* dialog, bill generation, and the instance stopped and started again.
NextTill ==
    \/ \E inputs \in PurchaseLists({"Widget"}, 1..MaxQty) :
          save_all_products(1, inputs)
    \/ \E threshold \in Thresholds : set_low_stock_threshold(1, threshold)
    \/ \E quantity \in 1..MaxQty :
          temp_products[1] = <<>> /\ add_billing_item(1, "Widget", quantity, 100)
    \/ \E quantity \in 1..MaxQty :
          update_billing_item(1, 1, "Widget", quantity, 100)
    \/ remove_billing_items(1, {})
    \/ \E c \in Customers : generate_bill(1, c)
    \/ get_invoice_number_select(1)
    \/ get_invoice_number_update(1)
    \/ generate_bill_create_bill(1)
    \/ generate_bill_check_stock(1)
    \/ generate_bill_add_bill_item(1)
    \/ update_stock_begin(1)
    \/ update_stock_select(1)
    \/ update_stock_commit(1)
    \/ Dismiss(1, {})
    \/ Abandon(1)
    \/ Restart(1)

SpecTill == Init /\ [][NextTill]_vars

\* Two instances at the counter on one day: one purchase entry, carts of
\* one line, and bill generation in any interleaving.
NextTillRace ==
    \/ \E inputs \in PurchaseLists({"Widget"}, {MaxQty}) :
          products = <<>> /\ save_all_products(1, inputs)
    \/ \E p \in Procs :
          \/ \E quantity \in 1..MaxQty :
                temp_products[p] = <<>>
                /\ add_billing_item(p, "Widget", quantity, 100)
          \/ generate_bill(p, "Asha")
          \/ get_invoice_number_select(p)
          \/ get_invoice_number_update(p)
          \/ generate_bill_create_bill(p)
          \/ generate_bill_check_stock(p)
          \/ generate_bill_add_bill_item(p)
          \/ update_stock_begin(p)
          \/ update_stock_select(p)
          \/ update_stock_commit(p)
          \/ Busy(p)
          \/ Dismiss(p, {})

SpecTillRace == Init /\ [][NextTillRace]_vars

\* One instance over two days, with purchases of one product in every GST
\* slab, with and without CESS, a cart of one line and bill generation.
NextTax ==
    \/ today < MaxAllocDay /\ Tick
    \/ \E inputs \in PurchaseForms({"Widget"}, 1..MaxQty, UnitPrices,
                                   GstSlabs, CessRates) :
          save_all_products(1, inputs)
    \/ \E quantity \in 1..MaxQty :
          temp_products[1] = <<>> /\ add_billing_item(1, "Widget", quantity, 100)
    \/ \E quantity \in 1..MaxQty :
          update_billing_item(1, 1, "Widget", quantity, 100)
    \/ generate_bill(1, "Asha")
    \/ get_invoice_number_select(1)
    \/ get_invoice_number_update(1)
    \/ generate_bill_create_bill(1)
    \/ generate_bill_check_stock(1)
    \/ generate_bill_add_bill_item(1)
    \/ update_stock_begin(1)
    \/ update_stock_select(1)
    \/ update_stock_commit(1)
    \/ Dismiss(1, {1})

SpecTax == Init /\ [][NextTax]_vars

\* One instance over the days of two calendar years: one purchase entry,
\* carts of one line and bill generation, with the settings row of a new
\* year inserted by get_invoice_number.
NextYears ==
    \/ Tick
    \/ \E inputs \in PurchaseLists({"Widget"}, {MaxQty}) :
          products = <<>> /\ save_all_products(1, inputs)
    \/ temp_products[1] = <<>> /\ add_billing_item(1, "Widget", 1, 100)
    \/ generate_bill(1, "Asha")
    \/ get_invoice_number_select(1)
    \/ get_invoice_number_insert(1)
    \/ get_invoice_number_update(1)
    \/ generate_bill_create_bill(1)
    \/ generate_bill_check_stock(1)
    \/ generate_bill_add_bill_item(1)
    \/ update_stock_begin(1)
    \/ update_stock_select(1)
    \/ update_stock_commit(1)
    \/ Dismiss(1, {})

SpecYears == Init /\ [][NextYears]_vars

\* One instance on one day and one purchase entry, with quantities of
\* either sign on the purchase form, in the cart and in direct calls of
\* update_stock.
NextSign ==
    \/ \E inputs \in PurchaseLists({"Widget"}, QtyInputs) :
          products = <<>> /\ save_all_products(1, inputs)
    \/ \E quantity \in QtyInputs :
          temp_products[1] = <<>> /\ add_billing_item(1, "Widget", quantity, 100)
    \/ \E quantity \in QtyInputs : update_stock(1, "Widget", quantity)
    \/ generate_bill(1, "Asha")
    \/ get_invoice_number_select(1)
    \/ get_invoice_number_update(1)
    \/ generate_bill_create_bill(1)
    \/ generate_bill_check_stock(1)
    \/ generate_bill_add_bill_item(1)
    \/ update_stock_begin(1)
    \/ update_stock_select(1)
    \/ update_stock_commit(1)
    \/ Dismiss(1, {})

SpecSign == Init /\ [][NextSign]_vars

\* The cart of one instance: a purchase entry per product, then lines
\* added, edited (a double click on a row, then "Update Item") and
\* removed.
NextCart ==
    \/ \E name \in Products :
          \E inputs \in PurchaseLists({name}, {MaxQty}) :
              IdsOf(products, name) = {} /\ save_all_products(1, inputs)
    \/ \E product_name \in Products, quantity \in 1..MaxQty :
          add_billing_item(1, product_name, quantity, 100)
    \/ \E editing_item \in 1..MaxCart :
          \E product_name \in Products, quantity \in 1..MaxQty :
              update_billing_item(1, editing_item, product_name, quantity, 100)
    \/ \E selected \in Selections(1) : remove_billing_items(1, selected)

SpecCart == Init /\ [][NextCart]_vars

\* ---------------------------------------------------------- properties
RECURSIVE SumOriginal(_, _)
\* the sum of original_quantity over the rows ids of a products table
SumOriginal(prods, ids) ==
    IF ids = {} THEN 0
    ELSE LET i == CHOOSE j \in ids : TRUE
         IN  prods[i].original_quantity + SumOriginal(prods, ids \ {i})

\* the rows of table bill_items that carry a bill number
LinesOf(number) ==
    {i \in 1..Len(bill_items) : bill_items[i].bill_number = number}

\* generate_bill of p has ended in its except clause while processing the
\* last line of a cart of several lines.
FailedOnLastLine(p) ==
    /\ pc[p] = "msg_error"
    /\ error[p] \in {"ValueError", "OperationalError"}
    /\ item_idx[p] > 1
    /\ item_idx[p] = Len(temp_products[p])

\* C1: when generate_bill fails on the last cart line after earlier lines
\* were processed, every product's sum of remaining quantity is what it was
\* before the call and neither a billing row nor a bill_items row with the
\* call's invoice number is stored.
C1_GenerateBillAtomic ==
    \A p \in Procs :
        FailedOnLastLine(p) =>
            /\ \A n \in Products :
                   TotalRemaining(products, n) = TotalRemaining(call_pre[p], n)
            /\ invoice_number[p] \notin BillNumbers(billing)
            /\ LinesOf(invoice_number[p]) = {}

\* The steps of update_stock between BEGIN IMMEDIATE and commit.
InTransaction == {"us_select", "us_update"}

\* C2: two callers of update_stock on separate connections never have the
\* check and the decrements of their calls interleaved; no batch's remaining
\* quantity goes below 0; and what the successful calls were granted is
\* exactly what the batches have lost, so it never exceeds the stock that
\* existed and no unit is granted twice.
C2_NoOverselling ==
    /\ \A p, q \in Procs :
           (p # q /\ pc[p] \in InTransaction) => pc[q] \notin InTransaction
    /\ \A i \in 1..Len(products) : products[i].quantity >= 0
    /\ \A n \in Products :
           /\ granted[n] = SumOriginal(products, IdsOf(products, n))
                             - TotalRemaining(products, n)
           /\ granted[n] <= SumOriginal(products, IdsOf(products, n))

\* One caller has just been granted stock that the other caller, waiting to
\* begin, asks for as well: before the grant there was enough for the
\* waiting caller, now there is not.
C2_Witness ==
    \E p \in Procs :
        /\ pc[p] = "us_begin"
        /\ us_done # <<>>
        /\ us_done.ok
        /\ us_done.quantity > 0
        /\ us_args[p].product_name = us_done.product_name
        /\ us_args[p].quantity
             <= TotalRemaining(us_done.pre, us_done.product_name)
        /\ us_args[p].quantity
             > TotalRemaining(products, us_done.product_name)

\* C3 as stated: whenever the product's sum of remaining quantity is at
\* least the requested quantity, update_stock succeeds and the sum has gone
\* down by exactly the requested quantity.
C3_SufficientStock ==
    (us_done # <<>> /\ TotalRemaining(us_done.pre, us_done.product_name)
                         >= us_done.quantity)
    => /\ us_done.ok
       /\ TotalRemaining(us_done.post, us_done.product_name)
            = TotalRemaining(us_done.pre, us_done.product_name)
                - us_done.quantity

\* C3, for requested quantities that are not negative: whenever the
\* product's sum of remaining quantity is at least the requested quantity,
\* update_stock succeeds and the sum has gone down by exactly the requested
\* quantity.
C3_SufficientStockNonNegative ==
    (us_done # <<>> /\ us_done.quantity >= 0
                    /\ TotalRemaining(us_done.pre, us_done.product_name)
                         >= us_done.quantity)
    => /\ us_done.ok
       /\ TotalRemaining(us_done.post, us_done.product_name)
            = TotalRemaining(us_done.pre, us_done.product_name)
                - us_done.quantity

\* A successful call whose request took from two batches.
C3_Witness ==
    /\ us_done # <<>>
    /\ us_done.ok
    /\ us_done.quantity > 0
    /\ TotalRemaining(us_done.pre, us_done.product_name) >= us_done.quantity
    /\ \E i, j \in 1..Len(us_done.pre) :
           /\ i # j
           /\ us_done.post[i].quantity < us_done.pre[i].quantity
           /\ us_done.post[j].quantity < us_done.pre[j].quantity

\* C4: after a successful update_stock, when a batch has been decremented
\* every batch of the same product with a strictly earlier purchase date has
\* remaining quantity 0.
C4_FifoWithinAllocation ==
    (us_done # <<>> /\ us_done.ok) =>
        \A b \in 1..Len(us_done.pre) :
            us_done.post[b].quantity < us_done.pre[b].quantity =>
                \A a \in IdsOf(us_done.pre, us_done.pre[b].product_name) :
                    us_done.pre[a].purchase_date
                        < us_done.pre[b].purchase_date
                    => us_done.post[a].quantity = 0

\* C5: when the requested quantity is greater than the product's sum of
\* remaining quantity, update_stock fails and no batch of any product has
\* changed.
C5_InsufficientStockNoChange ==
    (us_done # <<>> /\ us_done.quantity
                         > TotalRemaining(us_done.pre, us_done.product_name))
    => /\ ~us_done.ok
       /\ us_done.post = us_done.pre

\* C6: every batch has 0 <= remaining quantity <= original quantity.
C6_RemainingWithinOriginal ==
    \A i \in 1..Len(products) :
        /\ 0 <= products[i].quantity
        /\ products[i].quantity <= products[i].original_quantity

\* C7: a batch is created with its remaining quantity equal to its original
\* quantity, and no step increases the remaining quantity of a batch that
\* exists.
C7_RemainingNeverIncreases ==
    [][/\ Len(products') >= Len(products)
       /\ \A i \in 1..Len(products) :
              products'[i].quantity <= products[i].quantity
       /\ \A i \in (Len(products) + 1)..Len(products') :
              products'[i].quantity = products'[i].original_quantity]_vars

\* A batch created on an earlier day has been taken from, and a batch was
\* added after that.
C7_Witness ==
    /\ Len(products) = 2
    /\ products[1].quantity < products[1].original_quantity
    /\ products[2].purchase_date > products[1].purchase_date
    /\ products[2].quantity = products[2].original_quantity
    /\ products[2].quantity > 0

\* C8 as stated: the numbers issued in a year by calls made one after the
\* other are 1, 2, ..., N in that order.
C8_SerialNumbers ==
    \A y \in Years :
        \A i \in 1..Len(issued[y]) : issued[y][i].number = i

\* C8, for a year in which no call is made on April 1st: the numbers issued
\* in the year by calls made one after the other are 1, 2, ..., N in that
\* order; the first call in a year without a settings row returns 1 and
\* the next call returns 2.
C8_SerialNumbersNoReset ==
    \A y \in Years :
        (\A i \in 1..Len(issued[y]) : ~issued[y][i].april)
        => \A i \in 1..Len(issued[y]) : issued[y][i].number = i

\* Two calls were made in the year that began without a settings row.
C8_Witness ==
    /\ Year(today) # Year(0)
    /\ Len(issued[Year(today)]) = 2
    /\ settings[Year(today)] = 2
    /\ \A p \in Procs : pc[p] = "idle"

\* C9: a caller of get_invoice_number is never returned a number that was
\* returned to the other caller while this caller's call was under way.
C9_ConcurrentNumbersDiffer ==
    \A p \in Procs :
        (pc[p] = "idle" /\ invoice_number[p] # NoNumber)
        => invoice_number[p] \notin concurrent[p]

\* update_stock, called by generate_bill of p, has just raised its
\* insufficient-stock error.  The in-loop check of generate_bill had found
\* enough stock for the line, so another caller has taken it since.
DrainedByOther(p) ==
    /\ pc[p] = "msg_error"
    /\ error[p] = "ValueError"
    /\ us_done # <<>>
    /\ us_done.by = p
    /\ ~us_done.ok

\* The call of p left nothing: no bill header and no bill line.
RolledBack(p) ==
    /\ invoice_number[p] \notin BillNumbers(billing)
    /\ LinesOf(invoice_number[p]) = {}

\* C10: with two callers of generate_bill on the same product, a call
\* whose update_stock fails because the other caller took the stock after
\* this call's availability check ends rolled back: it leaves no bill
\* header and no bill line.
C10_DrainedCallRolledBack ==
    \A p \in Procs : DrainedByOther(p) => RolledBack(p)

\* C11: with one instance running, when its generate_bill call is abandoned
\* between two of its statements none of the call's writes is in the
\* database: the batches are as they were before the call, and a call that
\* had got as far as storing its bill header has left neither that header
\* nor a bill line.
C11_AbandonIsRollback ==
    \A p \in Procs :
        pc[p] = "abandoned" =>
            /\ products = call_pre[p]
            /\ item_idx[p] >= 1 =>
                   /\ invoice_number[p] \notin BillNumbers(billing)
                   /\ LinesOf(invoice_number[p]) = {}

\* C12: a generate_bill call made with an empty cart or with no customer
\* selected ends in the validation error box, and neither that step nor the
\* closing of the box changes products, billing, bill_items or settings
\* (get_invoice_number is not called: last_invoice_number stays).
C12_ValidationBeforeEffect ==
    [][\A p \in Procs :
         /\ (/\ pc[p] = "idle"
             /\ caller'[p] = "generate_bill"
             /\ (temp_products[p] = <<>> \/ customer_name'[p] = ""))
            => /\ pc'[p] = "msg_error"
               /\ error'[p] = "validation"
               /\ UNCHANGED <<products, billing, bill_items, settings>>
         /\ (/\ pc[p] = "msg_error"
             /\ error[p] = "validation"
             /\ pc'[p] # pc[p])
            => /\ pc'[p] = "idle"
               /\ UNCHANGED <<products, billing, bill_items, settings>>]_vars

\* A call with a line in the cart and stock on the shelf was refused for
\* want of a customer.
C12_Witness ==
    \E p \in Procs :
        /\ pc[p] = "msg_error"
        /\ error[p] = "validation"
        /\ temp_products[p] # <<>>
        /\ products # <<>>

\* C13: no two rows of billing carry the same bill_number, and a row is
\* added to billing only by create_bill of a generate_bill call, under the
\* number that the one get_invoice_number call of that generate_bill call
\* returned: the number is assigned once in the call, it is one of the
\* numbers get_invoice_number has issued, and no row of billing carries it
\* yet.
C13_UniqueInvoiceNumbers ==
    [][/\ \A b1, b2 \in billing' :
              b1.bill_number = b2.bill_number => b1 = b2
       /\ billing' # billing
          => \E p \in Procs :
                 /\ pc[p] = "gb_create_bill" /\ pc'[p] = "gb_check"
                 /\ billing \subseteq billing'
                 /\ BillNumbers(billing') =
                        BillNumbers(billing) \cup {invoice_number[p]}
       /\ \A p \in Procs :
              /\ (pc[p] = "gb_create_bill" /\ pc'[p] = "gb_check")
                 => /\ invoice_number[p] # NoNumber
                    /\ invoice_number[p] \notin BillNumbers(billing)
                    /\ invoice_number[p] \in BillNumbers(billing')
                    /\ \E y \in Years : \E i \in 1..Len(issued[y]) :
                           issued[y][i].number = invoice_number[p]
              /\ (pc[p] \in InGenerateBill /\ caller[p] = "generate_bill"
                  /\ invoice_number'[p] # invoice_number[p])
                 => /\ pc[p] = "gin_update"
                    /\ invoice_number[p] = NoNumber]_vars

\* Two generate_bill calls were given the same number: one has persisted
\* its bill, the other's create_bill was refused.
C13_Witness ==
    \E p \in Procs :
        /\ pc[p] = "msg_error"
        /\ error[p] = "IntegrityError"
        /\ caller[p] = "generate_bill"
        /\ invoice_number[p] \in BillNumbers(billing)
        /\ Cardinality(billing) = 1

RECURSIVE LinesTotal(_, _)

\* The sum over the rows of bill_items, taken with the cart lines they were
\* written from, of quantity * unit_price * (1 + (cgst + sgst) / 100), in
\* hundredths of the currency unit.
LinesTotal(rows, cart) ==
    IF rows = <<>> \/ cart = <<>> THEN 0
    ELSE Head(rows).quantity * Head(rows).unit_price
             * (100 + Head(cart).cgst + Head(cart).sgst)
         + LinesTotal(Tail(rows), Tail(cart))

\* The rows of bill_items of one bill, in the order they were inserted.
BillLines(number) ==
    SelectSeq(bill_items, LAMBDA row : row.bill_number = number)

\* generate_bill of p has ended, with its message box open and the cart
\* still as it was billed, after create_bill had inserted the bill.
EndedWithBill(p) ==
    /\ pc[p] \in {"msg_success", "msg_error"}
    /\ caller[p] = "generate_bill"
    /\ item_idx[p] >= 1

\* C14: when generate_bill has ended and its bill is in billing, the
\* total_amount of the bill equals the sum over the bill's rows of
\* bill_items of quantity * unit_price * (1 + (cgst + sgst) / 100), with
\* the rates of the cart line each row was written from.
C14_TotalIsSumOfLines ==
    \A p \in Procs :
        EndedWithBill(p)
        => \A b \in billing :
               b.bill_number = invoice_number[p]
               => b.total_amount =
                      LinesTotal(BillLines(b.bill_number), temp_products[p])

\* C15: the total of a sale line is base + cgstAmount + sgstAmount +
\* cessAmount, with base = quantity * unit price and each tax amount =
\* base * its percentage / 100.  The item_total that add_billing_item and
\* update_billing_item show for a cart line is that sum, with the CESS of
\* the batches of the product that carry the line's CGST and SGST, and
\* the total_amount that generate_bill gives to create_bill is the sum of
\* these line totals (amounts in hundredths of the currency unit).
C15_LineTotalWithCess ==
    \A p \in Procs :
        \A k \in 1..Min(Len(billing_items_tree[p]), Len(temp_products[p])) :
            LET row == billing_items_tree[p][k]
                line == temp_products[p][k]
                base == row.quantity * row.unit_price
            IN  \A i \in IdsOf(products, row.product_name) :
                    (products[i].cgst = line.cgst
                     /\ products[i].sgst = line.sgst)
                    => /\ row.item_total =
                              base * 100 + base * line.cgst
                              + base * line.sgst + base * products[i].cess
                       /\ (pc[p] = "gb_check" /\ item_idx[p] = 1
                           /\ Len(temp_products[p]) = 1)
                          => \A b \in billing :
                                 b.bill_number = invoice_number[p]
                                 => b.total_amount =
                                        base * (100 + line.cgst + line.sgst
                                                + products[i].cess)

RECURSIVE BatchTax(_, _, _)

\* The sum, over the batches i of ids, of (pre[i].quantity -
\* post[i].quantity) * unit_price * (cgst + sgst of batch i): the tax of the
\* quantities an update_stock call took, at each batch's own rates, in
\* hundredths of the currency unit.
BatchTax(pre, post, ids) ==
    IF ids = {} THEN 0
    ELSE LET i == CHOOSE j \in ids : TRUE
         IN  (pre[i].quantity - post[i].quantity) * pre[i].unit_price
                 * (pre[i].cgst + pre[i].sgst)
             + BatchTax(pre, post, ids \ {i})

\* The cart line whose update_stock call generate_bill of p has just
\* completed.
LineJustSold(p) ==
    temp_products[p][IF pc[p] = "msg_success"
                     THEN item_idx[p] ELSE item_idx[p] - 1]

\* C16: when update_stock has just deducted a bill line of generate_bill
\* from several batches of the product whose CGST/SGST differ, the tax charged for the line (its
\* quantity * unit price * (CGST + SGST) of the cart line, as it enters
\* total_amount) equals the sum over the batches consumed of (quantity
\* taken from the batch * unit price * that batch's CGST + SGST).
C16_TaxPerBatchPortion ==
    \A p \in Procs :
        (/\ us_done # <<>>
         /\ us_done.by = p
         /\ us_done.ok
         /\ caller[p] = "generate_bill"
         /\ pc[p] \in {"msg_success", "gb_check"})
        => LET line == LineJustSold(p)
           IN  (\E i, j \in IdsOf(us_done.pre, us_done.product_name) :
                    /\ us_done.post[i].quantity < us_done.pre[i].quantity
                    /\ us_done.post[j].quantity < us_done.pre[j].quantity
                    /\ <<us_done.pre[i].cgst, us_done.pre[i].sgst>>
                         # <<us_done.pre[j].cgst, us_done.pre[j].sgst>>)
               => line.quantity * line.unit_price * (line.cgst + line.sgst)
                  = BatchTax(us_done.pre, us_done.post,
                             IdsOf(us_done.pre, us_done.product_name))

\* C17: no batch with a negative original_quantity or a negative
\* unit_price is ever persisted: a purchase entry with quantity < 0 or
\* price < 0 is refused and creates no row of products.
C17_NoNegativeBatch ==
    \A i \in 1..Len(products) :
        /\ products[i].original_quantity >= 0
        /\ products[i].unit_price >= 0

\* C18: the quantity of an existing row of products changes only in the
\* UPDATE step of DatabaseHandler.update_stock, and last_invoice_number of
\* an existing row of settings changes only in the UPDATE step of
\* DatabaseHandler.get_invoice_number; every other step (add_product,
\* create_bill, add_bill_item, set_low_stock_threshold, the cart edits,
\* the message boxes) leaves both as they were.
C18_OnlyAllocatorAndSequencerWrite ==
    [][/\ (\E i \in 1..Min(Len(products), Len(products')) :
               products'[i].quantity # products[i].quantity)
          => \E p \in Procs : pc[p] = "us_update" /\ pc'[p] # "us_update"
       /\ (\E y \in Years : settings[y] # NoRow /\ settings'[y] # settings[y])
          => \E p \in Procs : pc[p] = "gin_update" /\ pc'[p] # "gin_update"]_vars

\* The threshold dialog, a purchase entry and a bill have all been used:
\* the threshold of the year differs from its default while the stock and
\* the last invoice number are the ones update_stock and
\* get_invoice_number wrote.
C18_Witness ==
    /\ low_stock_threshold[Year(today)] # DefaultThreshold
    /\ settings[Year(today)] = 1
    /\ billing # {}
    /\ bill_items # <<>>
    /\ Len(products) >= 2
    /\ \E i \in 1..Len(products) :
           products[i].quantity < products[i].original_quantity

\* C19: batches are append-only.  No step removes a row of products, and
\* no step changes the original_quantity (or the product, or the purchase
\* date) of a row that exists: the rows only grow in number and each
\* keeps its original_quantity for ever.
C19_BatchesAppendOnly ==
    [][/\ Len(products') >= Len(products)
       /\ \A i \in 1..Len(products) :
              /\ products'[i].original_quantity = products[i].original_quantity
              /\ products'[i].product_name = products[i].product_name
              /\ products'[i].purchase_date = products[i].purchase_date]_vars

\* update_stock has emptied the older batch of a product after a second
\* purchase of it was entered: both rows are there, the emptied one with
\* the original_quantity it was created with.
C19_Witness ==
    /\ Len(products) = 2
    /\ products[1].product_name = products[2].product_name
    /\ products[1].original_quantity = MaxQty
    /\ products[1].quantity = 0
    /\ products[2].original_quantity > 0
    /\ us_done # <<>>
    /\ us_done.ok

\* C20: when add_billing_item accepts a cart line, the available-stock
\* figure it compared the quantity with (total_quantity of the row its
\* query returned, the row whose CGST and SGST the cart line carries)
\* equals the sum of the remaining quantities over all batches of the
\* product, whatever tax rates the batches carry.
C20_PreflightIsTotalRemaining ==
    [][\A p \in Procs :
           Len(temp_products'[p]) = Len(temp_products[p]) + 1
           => LET line == temp_products'[p][Len(temp_products'[p])]
              IN  GroupTotal(products, line.product_name,
                             <<line.cgst, line.sgst>>)
                  = TotalRemaining(products, line.product_name)]_vars

\* C21: after any sequence of update_stock calls, for every row of
\* products, original_quantity - quantity equals the sum of the amounts
\* that the update_stock calls made so far have taken from that row.
C21_RoundTripPerBatch ==
    \A i \in 1..Len(products) :
        products[i].original_quantity - products[i].quantity
        = TakenSoFar(products)[i]

\* Calls of update_stock have taken from two batches of one product, the
\* older one emptied and the newer one partly used.
C21_Witness ==
    /\ Len(products) = 2
    /\ products[1].product_name = products[2].product_name
    /\ TakenSoFar(products)[1] = products[1].original_quantity
    /\ TakenSoFar(products)[1] > 0
    /\ TakenSoFar(products)[2] > 0
    /\ products[2].quantity > 0

\* C22: a call of get_invoice_number whose UPDATE is made on April 1st
\* returns 1 and persists last_invoice_number = 1, whatever the row of the
\* year held (on every such call, not only the first of the day); on any
\* other date the call returns and persists the stored value + 1.
C22_AprilFirstReset ==
    [][\A p \in Procs :
           (pc[p] = "gin_update" /\ pc'[p] # "gin_update")
           => LET y == current_year[p]
              IN  IF IsAprilFirst(today)
                  THEN invoice_number'[p] = 1 /\ settings'[y] = 1
                  ELSE /\ invoice_number'[p] = settings[y] + 1
                       /\ settings'[y] = settings[y] + 1]_vars

\* Two calls were made on April 1st, the second with 1 stored, and a call
\* on a later day of the year has returned 2.
C22_Witness ==
    \E y \in Years :
        /\ Len(issued[y]) = 3
        /\ issued[y][1].april /\ issued[y][1].number = 1
        /\ issued[y][2].april /\ issued[y][2].number = 1
        /\ ~issued[y][3].april /\ issued[y][3].number = 2
        /\ settings[y] = 2

\* C23: the rows update_stock has fetched come in one order only: rows of
\* the same purchase date are in ascending id order, so that the batches
\* decremented and the amount taken from each are determined by the stock
\* and the request.
C23_TiesByBatchId ==
    \A p \in Procs :
        pc[p] = "us_update"
        => \A i, j \in 1..Len(batches[p]) :
               (i < j /\ products[batches[p][i].id].purchase_date
                           = products[batches[p][j].id].purchase_date)
               => batches[p][i].id < batches[p][j].id

\* C24: with the operations made one after the other, last_invoice_number
\* of a row of settings never decreases from one state to the next, except
\* in the UPDATE of a get_invoice_number call made on April 1st.
C24_LastNumberMonotone ==
    [][\A y \in Years :
           (settings[y] # NoRow /\ settings'[y] < settings[y])
           => /\ IsAprilFirst(today)
              /\ \E p \in Procs :
                     /\ pc[p] = "gin_update" /\ pc'[p] # "gin_update"
                     /\ current_year[p] = y]_vars

\* The numbers 1 and 2 were issued in a year before April 1st, and the call
\* of April 1st has taken the row back from 2 to 1.
C24_Witness ==
    \E y \in Years :
        /\ Len(issued[y]) = 3
        /\ issued[y][2].number = 2 /\ ~issued[y][2].april
        /\ issued[y][3].number = 1 /\ issued[y][3].april
        /\ settings[y] = 1

RECURSIVE SoldQuantity(_, _)

\* SUM(quantity) of the rows of bill_items of one product
SoldQuantity(rows, name) ==
    IF rows = <<>> THEN 0
    ELSE (IF Head(rows).product_name = name THEN Head(rows).quantity ELSE 0)
         + SoldQuantity(Tail(rows), name)

\* C25: whenever no generate_bill call is under way, for each product the
\* sum of bill_items.quantity recorded for the product equals the sum over
\* the product's batches of original_quantity - quantity: no bill line
\* without its deduction, no deduction without its bill line.
C25_LedgerReconciles ==
    (\A p \in Procs : pc[p] \in {"idle", "msg_success", "msg_error"})
    => \A name \in Products :
           SoldQuantity(bill_items, name)
           = SumOriginal(products, IdsOf(products, name))
             - TotalRemaining(products, name)

\* C26: the number get_invoice_number has handed to generate_bill is not
\* the bill_number of a row of billing, and create_bill never fails on a
\* duplicate key, on April 1st and across a change of calendar year as on
\* any other day.
C26_NumberIsFresh ==
    \A p \in Procs :
        /\ pc[p] = "gb_create_bill"
           => invoice_number[p] \notin BillNumbers(billing)
        /\ ~(pc[p] = "msg_error" /\ caller[p] = "generate_bill"
             /\ error[p] = "IntegrityError")

\* C27: with one instance alone on the database, every line of the cart
\* accepted by the stock check of add_billing_item and the stock not
\* reduced since (no bill has deducted anything before this call),
\* generate_bill never ends with an insufficient-stock error, also when
\* the cart holds the same product on more than one line.
C27_AcceptedCartIsAllocated ==
    \A p \in Procs :
        (/\ pc[p] = "msg_error"
         /\ caller[p] = "generate_bill"
         /\ \A i \in 1..Len(call_pre[p]) :
                call_pre[p][i].quantity = call_pre[p][i].original_quantity)
        => error[p] # "ValueError"

\* C28: in every state reached by purchase entries (their dates never
\* decrease) and update_stock calls, for two batches A and B of one
\* product with A bought on an earlier day than B: if B is partly or
\* fully consumed (quantity < original_quantity), A is exhausted
\* (quantity = 0).
C28_OlderBatchExhaustedFirst ==
    \A a, b \in 1..Len(products) :
        (/\ products[a].product_name = products[b].product_name
         /\ products[a].purchase_date < products[b].purchase_date
         /\ products[b].quantity < products[b].original_quantity)
        => products[a].quantity = 0

\* C29: an update_stock call with a requested quantity <= 0 ends without
\* error and leaves every row of products as it was; when the call was
\* made by generate_bill for a cart line of such a quantity, the line is
\* in bill_items under the bill's number with that quantity, and the
\* stock has not grown.
C29_NonPositiveRequestIsNoOp ==
    (us_done # <<>> /\ us_done.quantity <= 0)
    => /\ us_done.ok
       /\ us_done.post = us_done.pre
       /\ products = us_done.pre
       /\ \A p \in Procs :
              (us_done.by = p /\ caller[p] = "generate_bill")
              => /\ bill_items # <<>>
                 /\ bill_items[Len(bill_items)] =
                        [bill_number |-> invoice_number[p],
                         product_name |-> us_done.product_name,
                         quantity |-> us_done.quantity,
                         unit_price |-> LineJustSold(p).unit_price]
                 /\ LineJustSold(p).quantity = us_done.quantity

\* add_billing_item has accepted a line of quantity -1 while the product
\* had stock, and generate_bill has ended with the success box.
C29_Witness ==
    /\ us_done # <<>>
    /\ us_done.quantity < 0
    /\ us_done.by = 1
    /\ pc[1] = "msg_success"
    /\ temp_products[1] # <<>>
    /\ temp_products[1][1].quantity < 0
    /\ TotalRemaining(products, us_done.product_name) > 0
    /\ billing # {}

\* The number of rows of a list that show a product, quantity and unit
\* price.
LineCount(rows, product_name, quantity, unit_price) ==
    Cardinality({i \in 1..Len(rows) :
                     /\ rows[i].product_name = product_name
                     /\ rows[i].quantity = quantity
                     /\ rows[i].unit_price = unit_price})

\* C30: after any sequence of add_billing_item, update_billing_item and
\* remove_billing_items, temp_products holds exactly the lines that
\* billing_items_tree shows: every (product, quantity, unit price) occurs
\* as often in the one as in the other.
C30_CartMatchesTree ==
    \A p \in Procs :
        \A product_name \in Products, quantity \in QtyInputs,
           unit_price \in UnitPrices :
            LineCount(temp_products[p], product_name, quantity, unit_price)
            = LineCount(billing_items_tree[p], product_name, quantity,
                        unit_price)

====
